---------------------------- MODULE Spec2Model ----------------------------
(***************************************************************************)
(* The tree-walking evaluator of tomsharratt/alp (package evaluator) as a  *)
(* state machine.  One Go activation of Eval(ctx, node, env) is one frame  *)
(* of `stack`; the helpers Eval calls without a context check              *)
(* (evalProgram, evalBlockStatement, evalIfExpression, evalExpressions,    *)
(* evalHashLiteral, applyFunction) run inside the frame of the Eval that   *)
(* called them.  A frame is suspended at each recursive call of Eval and   *)
(* resumed with the callee's (object, error) pair in `ret`.                *)
(***************************************************************************)
EXTENDS Integers, Sequences, FiniteSets, TLC

VARIABLES
    prog,       \* index in Programs of the program handed to the top-level Eval
    stack,      \* the Go call stack of Eval activations, the last is the running one
    status,     \* "eval": the top frame begins; "ret": its callee returned;
                \* "done": the top-level Eval returned; "panic": the process crashed
    ret,        \* the (object, error) pair just returned
    envs,       \* the heap of object.Environment frames, addressed by index
    nextAddr,   \* the next fresh object address (pointer identity)
    cancelled   \* ctx.Err() # nil

vars == <<prog, stack, status, ret, envs, nextAddr, cancelled>>

\* The deepest Go call stack of Eval activations the model follows.
MaxDepth == 14

(***************************************************************************)
(* AST nodes (package ast), built as the parser builds them.               *)
(***************************************************************************)
NoNode == [kind |-> "nil"]
Program(stmts) == [kind |-> "Program", Statements |-> stmts]
Block(stmts) == [kind |-> "BlockStatement", Statements |-> stmts]
Return(e) == [kind |-> "ReturnStatement", ReturnValue |-> e]
Ident(n) == [kind |-> "Identifier", Value |-> n]
Let(n, e) == [kind |-> "LetStatement", Name |-> Ident(n), Value |-> e]
ExprStmt(e) == [kind |-> "ExpressionStatement", Expression |-> e]
Fn(params, body) == [kind |-> "FunctionLiteral", Parameters |-> params, Body |-> body]
IntegerLiteral(n) == [kind |-> "IntegerLiteral", Value |-> n]
StringLiteral(s) == [kind |-> "StringLiteral", Value |-> s]
BooleanLiteral(b) == [kind |-> "Boolean", Value |-> b]
Array(elems) == [kind |-> "ArrayLiteral", Elements |-> elems]
\* HashLiteral.Pairs is a Go map from key node to value node; the model keeps the
\* pairs in the order they are written and iterates them in any order.
HashLit(pairs) == [kind |-> "HashLiteral", Pairs |-> pairs]
Pair(k, v) == [Key |-> k, Value |-> v]
Index(l, i) == [kind |-> "IndexExpression", Left |-> l, Index |-> i]
Prefix(op, r) == [kind |-> "PrefixExpression", Operator |-> op, Right |-> r]
Infix(op, l, r) == [kind |-> "InfixExpression", Operator |-> op, Left |-> l, Right |-> r]
If(c, t, e) == [kind |-> "IfExpression", Condition |-> c, Consequence |-> t, Alternative |-> e]
Call(f, args) == [kind |-> "CallExpression", Function |-> f, Arguments |-> args]

(***************************************************************************)
(* Runtime objects (package object).  `addr` is the pointer the Go         *)
(* interface value holds: == and != on non-integers compare it.            *)
(***************************************************************************)
NIL == [type |-> "nil", addr |-> 0]
NULL == [type |-> "NULL", addr |-> 1]
TRUE_ == [type |-> "BOOLEAN", addr |-> 2, Value |-> TRUE]
FALSE_ == [type |-> "BOOLEAN", addr |-> 3, Value |-> FALSE]
BuiltinLen == [type |-> "BUILTIN", addr |-> 4, Name |-> "len"]
FirstAddr == BuiltinLen.addr + 1

NoErr == "nil"
Canceled == "context canceled"
NoRet == [obj |-> NIL, err |-> NoErr]

Integer(a, v) == [type |-> "INTEGER", addr |-> a, Value |-> v]
String(a, s) == [type |-> "STRING", addr |-> a, Value |-> s]
ArrayObj(a, elems) == [type |-> "ARRAY", addr |-> a, Elements |-> elems]
HashObj(a, pairs) == [type |-> "HASH", addr |-> a, Pairs |-> pairs]
Function(a, params, env, body) ==
    [type |-> "FUNCTION", addr |-> a, Parameters |-> params, Env |-> env, Body |-> body]
ReturnValue(a, v) == [type |-> "RETURN_VALUE", addr |-> a, Value |-> v]
newError(a, msg) == [type |-> "ERROR", addr |-> a, Message |-> msg]

\* A nil-pointer dereference, an index out of range or a division by zero: the Go
\* runtime panics and, nothing recovering, the process ends.
PanicNil == "panic: nil pointer dereference"
PanicIndex == "panic: index out of range"
PanicDiv == "panic: integer divide by zero"
PANIC(msg) == [type |-> "panic", addr |-> 0 - 1, Message |-> msg]

\* isError without its test: no object is taken for an Error.
isErrorNever(obj) == FALSE

isError(obj) == IF obj # NIL THEN obj.type = "ERROR" ELSE FALSE

nativeBoolToBooleanObject(input) == IF input THEN TRUE_ ELSE FALSE_

isTruthy(obj) ==
    IF obj.addr = NULL.addr THEN FALSE
    ELSE IF obj.addr = TRUE_.addr THEN TRUE
    ELSE IF obj.addr = FALSE_.addr THEN FALSE
    ELSE TRUE

unwrapReturnValue(obj) == IF obj.type = "RETURN_VALUE" THEN obj.Value ELSE obj

\* object.Hashable: Integer, Boolean and String implement HashKey().
Hashable(obj) == obj.type \in {"INTEGER", "BOOLEAN", "STRING"}
HashKey(obj) ==
    [Type |-> obj.type,
     Value |-> IF obj.type = "BOOLEAN" THEN (IF obj.Value THEN 1 ELSE 0) ELSE obj.Value]
SameKey(h, k) == h.Type = k.Type /\ h.Value = k.Value

\* pairs[hashed] = HashPair{Key, Value} on a Go map: overwrite or insert.
HashPut(pairs, hk, key, value) ==
    IF \E j \in 1..Len(pairs) : SameKey(pairs[j].hk, hk)
    THEN [j \in 1..Len(pairs) |->
            IF SameKey(pairs[j].hk, hk)
            THEN [hk |-> hk, Key |-> key, Value |-> value] ELSE pairs[j]]
    ELSE Append(pairs, [hk |-> hk, Key |-> key, Value |-> value])

(***************************************************************************)
(* object.Environment: a store and an outer frame (0: none).               *)
(***************************************************************************)
EmptyStore == [n \in {} |-> NIL]
NewEnvironment == [store |-> EmptyStore, outer |-> 0]
NewEnclosedEnvironment(outer) == [store |-> EmptyStore, outer |-> outer]

StoreSet(store, name, val) ==
    [n \in DOMAIN store \cup {name} |-> IF n = name THEN val ELSE store[n]]

\* env.Set(name, val): writes the frame `e` itself.
Set(heap, e, name, val) ==
    [heap EXCEPT ![e] = [@ EXCEPT !.store = StoreSet(@, name, val)]]

\* env.Get(name): the frame, then its outer frames.
RECURSIVE Get(_, _, _)
Get(heap, e, name) ==
    IF e = 0 THEN [ok |-> FALSE, val |-> NIL]
    ELSE IF name \in DOMAIN heap[e].store
         THEN [ok |-> TRUE, val |-> heap[e].store[name]]
         ELSE Get(heap, heap[e].outer, name)

builtins == [n \in {"len"} |-> BuiltinLen]

\* The built-in len: one String or Array argument.
BuiltinFn(a, fn, args) ==
    IF Len(args) # 1
    THEN newError(a, "wrong number of arguments")
    ELSE IF args[1] = NIL THEN PANIC(PanicNil)
    ELSE IF args[1].type = "STRING" THEN Integer(a, Len(args[1].Value))
    ELSE IF args[1].type = "ARRAY" THEN Integer(a, Len(args[1].Elements))
    ELSE newError(a, "argument to len not supported, got " \o args[1].type)

evalIdentifier(a, node, heap, e) ==
    LET got == Get(heap, e, node.Value) IN
    IF got.ok THEN got.val
    ELSE IF node.Value \in DOMAIN builtins THEN builtins[node.Value]
    ELSE newError(a, "identifier not found: " \o node.Value)

(***************************************************************************)
(* Operators.  x.Type() on a nil interface panics.                         *)
(***************************************************************************)
evalBangOperatorExpression(right) ==
    IF right.addr = TRUE_.addr THEN FALSE_
    ELSE IF right.addr = FALSE_.addr THEN TRUE_
    ELSE IF right.addr = NULL.addr THEN TRUE_
    ELSE FALSE_

evalMinusPrefixOperatorExpression(a, right) ==
    IF right = NIL THEN PANIC(PanicNil)
    ELSE IF right.type # "INTEGER"
    THEN newError(a, "unknown operator: -" \o right.type)
    ELSE Integer(a, 0 - right.Value)

evalPrefixExpression(a, operator, right) ==
    IF operator = "!" THEN evalBangOperatorExpression(right)
    ELSE IF operator = "-" THEN evalMinusPrefixOperatorExpression(a, right)
    ELSE IF right = NIL THEN PANIC(PanicNil)
    ELSE newError(a, "unknown operator: " \o operator \o right.type)

\* Go's / truncates toward zero.  The programs evaluated keep every integer far
\* inside int64, so no operation wraps.
Quot(x, y) ==
    LET ax == IF x < 0 THEN 0 - x ELSE x
        ay == IF y < 0 THEN 0 - y ELSE y
        q == ax \div ay
    IN IF (x < 0) = (y < 0) THEN q ELSE 0 - q

evalIntegerInfixExpression(a, operator, left, right) ==
    LET leftVal == left.Value
        rightVal == right.Value
    IN CASE operator = "+" -> Integer(a, leftVal + rightVal)
         [] operator = "-" -> Integer(a, leftVal - rightVal)
         [] operator = "*" -> Integer(a, leftVal * rightVal)
         [] operator = "/" -> IF rightVal = 0 THEN PANIC(PanicDiv)
                              ELSE Integer(a, Quot(leftVal, rightVal))
         [] operator = "<" -> nativeBoolToBooleanObject(leftVal < rightVal)
         [] operator = ">" -> nativeBoolToBooleanObject(leftVal > rightVal)
         [] operator = "==" -> nativeBoolToBooleanObject(leftVal = rightVal)
         [] operator = "!=" -> nativeBoolToBooleanObject(leftVal # rightVal)
         [] OTHER -> newError(a, "unknown operator: " \o left.type \o " "
                                    \o operator \o " " \o right.type)

evalStringInfixExpression(a, operator, left, right) ==
    IF operator # "+"
    THEN newError(a, "unknown operator: " \o left.type \o " "
                        \o operator \o " " \o right.type)
    ELSE String(a, left.Value \o right.Value)

\* evalInfixExpression with the kinds compared before the operator is looked at.
evalInfixExpressionKindsFirst(a, operator, left, right) ==
    IF left = NIL \/ right = NIL THEN PANIC(PanicNil)
    ELSE IF left.type = "INTEGER" /\ right.type = "INTEGER"
    THEN evalIntegerInfixExpression(a, operator, left, right)
    ELSE IF left.type # right.type
    THEN newError(a, "type mismatch: " \o left.type \o " "
                        \o operator \o " " \o right.type)
    ELSE IF operator = "==" THEN nativeBoolToBooleanObject(left.addr = right.addr)
    ELSE IF operator = "!=" THEN nativeBoolToBooleanObject(left.addr # right.addr)
    ELSE IF left.type = "STRING"
    THEN evalStringInfixExpression(a, operator, left, right)
    ELSE newError(a, "unknown operator: " \o left.type \o " "
                        \o operator \o " " \o right.type)

\* The switch of evalInfixExpression, case by case in the source's order; && does
\* not evaluate right.Type() when the left test fails.
evalInfixExpression(a, operator, left, right) ==
    IF left = NIL THEN PANIC(PanicNil)
    ELSE IF left.type = "INTEGER" /\ right = NIL THEN PANIC(PanicNil)
    ELSE IF left.type = "INTEGER" /\ right.type = "INTEGER"
    THEN evalIntegerInfixExpression(a, operator, left, right)
    ELSE IF operator = "==" THEN nativeBoolToBooleanObject(left.addr = right.addr)
    ELSE IF operator = "!=" THEN nativeBoolToBooleanObject(left.addr # right.addr)
    ELSE IF right = NIL THEN PANIC(PanicNil)
    ELSE IF left.type = "STRING" /\ right.type = "STRING"
    THEN evalStringInfixExpression(a, operator, left, right)
    ELSE IF left.type # right.type
    THEN newError(a, "type mismatch: " \o left.type \o " "
                        \o operator \o " " \o right.type)
    ELSE newError(a, "unknown operator: " \o left.type \o " "
                        \o operator \o " " \o right.type)

evalArrayIndexExpression(array, index) ==
    LET idx == index.Value
        max == Len(array.Elements) - 1
    IN IF idx < 0 \/ idx > max THEN NULL ELSE array.Elements[idx + 1]

evalHashIndexExpression(a, hash, index) ==
    IF index = NIL THEN PANIC(PanicNil)
    ELSE IF ~Hashable(index)
    THEN newError(a, "unusable as hash key: " \o index.type)
    ELSE LET hit == {j \in 1..Len(hash.Pairs) : SameKey(hash.Pairs[j].hk, HashKey(index))}
         IN IF hit = {} THEN NULL ELSE hash.Pairs[CHOOSE j \in hit : TRUE].Value

evalIndexExpression(a, left, index) ==
    IF left = NIL THEN PANIC(PanicNil)
    ELSE IF left.type = "ARRAY" /\ index = NIL THEN PANIC(PanicNil)
    ELSE IF left.type = "ARRAY" /\ index.type = "INTEGER"
    THEN evalArrayIndexExpression(left, index)
    ELSE IF left.type = "HASH" THEN evalHashIndexExpression(a, left, index)
    ELSE newError(a, "index operator not supported: " \o left.type)

(***************************************************************************)
(* The FunctionLiteral case of Eval and the helpers of applyFunction: the  *)
(* places that hand out or create environments.                            *)
(***************************************************************************)
\* A FunctionLiteral that captures a copy of the environment.
evalFunctionLiteralCopy(a, node, heap, e) ==
    [obj |-> Function(a, node.Parameters, Len(heap) + 1, node.Body),
     heap |-> Append(heap, heap[e])]

\* &object.Function{Parameters: params, Env: env, Body: body}: env is the frame
\* itself, not a copy of it.
evalFunctionLiteral(a, node, heap, e) ==
    [obj |-> Function(a, node.Parameters, e, node.Body), heap |-> heap]

RECURSIVE SetParams(_, _, _, _, _)
SetParams(heap, e, params, args, paramIdx) ==
    IF paramIdx > Len(params) \/ paramIdx > Len(args) THEN heap
    ELSE SetParams(Set(heap, e, params[paramIdx].Value, args[paramIdx]),
                   e, params, args, paramIdx + 1)

\* extendFunctionEnv without the enclosed environment: the parameters are set in
\* the captured frame itself.
extendFunctionEnvInPlace(heap, fn, args) ==
    [heap |-> SetParams(heap, fn.Env, fn.Parameters, args, 1),
     env |-> fn.Env,
     panic |-> Len(args) < Len(fn.Parameters)]

\* env := NewEnclosedEnvironment(fn.Env); env.Set(param.Value, args[paramIdx]) for
\* every parameter: args[paramIdx] is out of range when arguments are missing.
extendFunctionEnv(heap, fn, args) ==
    LET env == Len(heap) + 1
        fresh == Append(heap, NewEnclosedEnvironment(fn.Env))
    IN [heap |-> SetParams(fresh, env, fn.Parameters, args, 1),
        env |-> env,
        panic |-> Len(args) < Len(fn.Parameters)]

\* An Eval that never looks at the context.
ctxErrIgnored == NoErr

\* ctx.Err()
ctxErr == IF cancelled THEN Canceled ELSE NoErr

(***************************************************************************)
(* The call stack.                                                         *)
(***************************************************************************)
NewFrame(node, e) ==
    [node |-> node, env |-> e, pc |-> "start", i |-> 0, vals |-> <<>>,
     todo |-> {}, pairs |-> <<>>]

Top == stack[Len(stack)]
Pop == SubSeq(stack, 1, Len(stack) - 1)

\* The running activation evaluates a node of kind k: it begins (and the context is
\* not cancelled) or its callee has returned.
Running(k) ==
    /\ status \in {"eval", "ret"}
    /\ Top.node.kind = k
    /\ status = "eval" => ctxErr = NoErr

\* return o, e.  An object with the fresh address has just been allocated.
Returns(o, e) ==
    /\ stack' = Pop
    /\ ret' = [obj |-> o, err |-> e]
    /\ status' = IF Len(stack) = 1 THEN "done" ELSE "ret"
    /\ nextAddr' = IF o.addr = nextAddr THEN nextAddr + 1 ELSE nextAddr

\* Eval(ctx, child, e), the caller suspended as frame f.
Calls(f, child, e) ==
    /\ Len(stack) < MaxDepth
    /\ stack' = Append(Append(Pop, f), NewFrame(child, e))
    /\ status' = "eval"
    /\ ret' = NoRet
    /\ UNCHANGED nextAddr

Panics(msg) ==
    /\ status' = "panic"
    /\ ret' = [obj |-> NIL, err |-> msg]
    /\ UNCHANGED <<stack, nextAddr>>

\* return o, nil for the result of an operator helper, which may have panicked.
Result(o) == IF o.type = "panic" THEN Panics(o.Message) ELSE Returns(o, NoErr)

(***************************************************************************)
(* Eval, one action per case of its switch.                                *)
(***************************************************************************)
\* if err := ctx.Err(); err != nil { return nil, err }
EvalCtxErr ==
    /\ status = "eval"
    /\ ctxErr # NoErr
    /\ Returns(NIL, ctxErr)
    /\ UNCHANGED <<prog, envs, cancelled>>

evalProgram ==
    /\ Running("Program")
    /\ LET f == Top
           statements == f.node.Statements
           result == IF status = "eval" THEN NIL ELSE ret.obj
       IN IF status = "ret" /\ ret.err # NoErr THEN Returns(NIL, ret.err)
          ELSE IF result.type = "RETURN_VALUE" THEN Returns(result.Value, NoErr)
          ELSE IF result.type = "ERROR" THEN Returns(result, NoErr)
          ELSE IF f.i < Len(statements)
          THEN Calls([f EXCEPT !.pc = "statement", !.i = f.i + 1],
                     statements[f.i + 1], f.env)
          ELSE Returns(result, NoErr)
    /\ UNCHANGED <<prog, envs, cancelled>>

evalBlockStatement ==
    /\ Running("BlockStatement")
    /\ LET f == Top
           statements == f.node.Statements
           result == IF status = "eval" THEN NIL ELSE ret.obj
       IN IF status = "ret" /\ ret.err # NoErr THEN Returns(NIL, ret.err)
          ELSE IF result # NIL /\ result.type \in {"RETURN_VALUE", "ERROR"}
          THEN Returns(result, NoErr)
          ELSE IF f.i < Len(statements)
          THEN Calls([f EXCEPT !.pc = "statement", !.i = f.i + 1],
                     statements[f.i + 1], f.env)
          ELSE Returns(result, NoErr)
    /\ UNCHANGED <<prog, envs, cancelled>>

EvalReturnStatement ==
    /\ Running("ReturnStatement")
    /\ LET f == Top IN
       IF status = "eval"
       THEN Calls([f EXCEPT !.pc = "value"], f.node.ReturnValue, f.env)
       ELSE IF ret.err # NoErr THEN Returns(NIL, ret.err)
       ELSE IF isError(ret.obj) THEN Returns(ret.obj, NoErr)
       ELSE Returns(ReturnValue(nextAddr, ret.obj), NoErr)
    /\ UNCHANGED <<prog, envs, cancelled>>

\* The case ends without a return: Eval returns nil, nil.
EvalLetStatement ==
    /\ Running("LetStatement")
    /\ LET f == Top IN
       IF status = "eval"
       THEN Calls([f EXCEPT !.pc = "value"], f.node.Value, f.env) /\ UNCHANGED envs
       ELSE IF ret.err # NoErr THEN Returns(NIL, ret.err) /\ UNCHANGED envs
       ELSE IF isError(ret.obj) THEN Returns(ret.obj, NoErr) /\ UNCHANGED envs
       ELSE /\ envs' = Set(envs, f.env, f.node.Name.Value, ret.obj)
            /\ Returns(NIL, NoErr)
    /\ UNCHANGED <<prog, cancelled>>

EvalIdentifier ==
    /\ Running("Identifier")
    /\ Returns(evalIdentifier(nextAddr, Top.node, envs, Top.env), NoErr)
    /\ UNCHANGED <<prog, envs, cancelled>>

EvalExpressionStatement ==
    /\ Running("ExpressionStatement")
    /\ LET f == Top IN
       IF status = "eval"
       THEN Calls([f EXCEPT !.pc = "expression"], f.node.Expression, f.env)
       ELSE Returns(ret.obj, ret.err)
    /\ UNCHANGED <<prog, envs, cancelled>>

EvalFunctionLiteral ==
    /\ Running("FunctionLiteral")
    /\ LET r == evalFunctionLiteral(nextAddr, Top.node, envs, Top.env) IN
       /\ Returns(r.obj, NoErr)
       /\ envs' = r.heap
    /\ UNCHANGED <<prog, cancelled>>

EvalIntegerLiteral ==
    /\ Running("IntegerLiteral")
    /\ Returns(Integer(nextAddr, Top.node.Value), NoErr)
    /\ UNCHANGED <<prog, envs, cancelled>>

EvalStringLiteral ==
    /\ Running("StringLiteral")
    /\ Returns(String(nextAddr, Top.node.Value), NoErr)
    /\ UNCHANGED <<prog, envs, cancelled>>

EvalBoolean ==
    /\ Running("Boolean")
    /\ Returns(nativeBoolToBooleanObject(Top.node.Value), NoErr)
    /\ UNCHANGED <<prog, envs, cancelled>>

\* evalExpressions runs in this frame: it returns the one Error alone.
EvalArrayLiteral ==
    /\ Running("ArrayLiteral")
    /\ LET f == Top
           exps == f.node.Elements
           result == IF status = "eval" THEN <<>> ELSE Append(f.vals, ret.obj)
       IN IF status = "ret" /\ ret.err # NoErr THEN Returns(NIL, ret.err)
          ELSE IF status = "ret" /\ isError(ret.obj) THEN Returns(ret.obj, NoErr)
          ELSE IF Len(result) < Len(exps)
          THEN Calls([f EXCEPT !.pc = "elements", !.vals = result],
                     exps[Len(result) + 1], f.env)
          ELSE IF Len(result) = 1 /\ isError(result[1]) THEN Returns(result[1], NoErr)
          ELSE Returns(ArrayObj(nextAddr, result), NoErr)
    /\ UNCHANGED <<prog, envs, cancelled>>

\* The iteration of a Go map visits the pairs in an order the language leaves open.
evalHashLiteral ==
    /\ Running("HashLiteral")
    /\ LET f == Top
           Pairs == f.node.Pairs
           todo == IF status = "eval" THEN 1..Len(Pairs) ELSE f.todo
           pairs == IF status = "ret" /\ f.pc = "value"
                    THEN HashPut(f.pairs, HashKey(f.vals[1]), f.vals[1], ret.obj)
                    ELSE f.pairs
       IN IF status = "ret" /\ ret.err # NoErr THEN Returns(NIL, ret.err)
          ELSE IF status = "ret" /\ isError(ret.obj) THEN Returns(ret.obj, NoErr)
          ELSE IF status = "ret" /\ f.pc = "key"
          THEN IF ret.obj = NIL THEN Panics(PanicNil)
               ELSE IF ~Hashable(ret.obj)
               THEN Returns(newError(nextAddr, "unusable as hash key: " \o ret.obj.type),
                            NoErr)
               ELSE Calls([f EXCEPT !.pc = "value", !.vals = <<ret.obj>>],
                          Pairs[f.i].Value, f.env)
          ELSE IF todo = {} THEN Returns(HashObj(nextAddr, pairs), NoErr)
          ELSE \E j \in todo :
                  Calls([f EXCEPT !.pc = "key", !.i = j, !.todo = todo \ {j},
                                  !.pairs = pairs, !.vals = <<>>],
                        Pairs[j].Key, f.env)
    /\ UNCHANGED <<prog, envs, cancelled>>

EvalIndexExpression ==
    /\ Running("IndexExpression")
    /\ LET f == Top IN
       IF status = "eval"
       THEN Calls([f EXCEPT !.pc = "left"], f.node.Left, f.env)
       ELSE IF ret.err # NoErr THEN Returns(NIL, ret.err)
       ELSE IF isError(ret.obj) THEN Returns(ret.obj, NoErr)
       ELSE IF f.pc = "left"
       THEN Calls([f EXCEPT !.pc = "index", !.vals = <<ret.obj>>], f.node.Index, f.env)
       ELSE Result(evalIndexExpression(nextAddr, f.vals[1], ret.obj))
    /\ UNCHANGED <<prog, envs, cancelled>>

EvalPrefixExpression ==
    /\ Running("PrefixExpression")
    /\ LET f == Top IN
       IF status = "eval"
       THEN Calls([f EXCEPT !.pc = "right"], f.node.Right, f.env)
       ELSE IF ret.err # NoErr THEN Returns(NIL, ret.err)
       ELSE IF isError(ret.obj) THEN Returns(ret.obj, NoErr)
       ELSE Result(evalPrefixExpression(nextAddr, f.node.Operator, ret.obj))
    /\ UNCHANGED <<prog, envs, cancelled>>

EvalInfixExpression ==
    /\ Running("InfixExpression")
    /\ LET f == Top IN
       IF status = "eval"
       THEN Calls([f EXCEPT !.pc = "left"], f.node.Left, f.env)
       ELSE IF ret.err # NoErr THEN Returns(NIL, ret.err)
       ELSE IF isError(ret.obj) THEN Returns(ret.obj, NoErr)
       ELSE IF f.pc = "left"
       THEN Calls([f EXCEPT !.pc = "right", !.vals = <<ret.obj>>], f.node.Right, f.env)
       ELSE Result(evalInfixExpression(nextAddr, f.node.Operator, f.vals[1], ret.obj))
    /\ UNCHANGED <<prog, envs, cancelled>>

evalIfExpression ==
    /\ Running("IfExpression")
    /\ LET f == Top
           ie == f.node
       IN IF status = "eval"
          THEN Calls([f EXCEPT !.pc = "condition"], ie.Condition, f.env)
          ELSE IF f.pc = "branch" THEN Returns(ret.obj, ret.err)
          ELSE IF ret.err # NoErr THEN Returns(NIL, ret.err)
          ELSE IF isError(ret.obj) THEN Returns(ret.obj, NoErr)
          ELSE IF isTruthy(ret.obj)
          THEN Calls([f EXCEPT !.pc = "branch"], ie.Consequence, f.env)
          ELSE IF ie.Alternative # NoNode
          THEN Calls([f EXCEPT !.pc = "branch"], ie.Alternative, f.env)
          ELSE Returns(NULL, NoErr)
    /\ UNCHANGED <<prog, envs, cancelled>>

\* applyFunction(ctx, fn, args), called by the frame f of the CallExpression.
applyFunction(f, fn, args) ==
    IF fn.type = "FUNCTION"
    THEN LET extended == extendFunctionEnv(envs, fn, args) IN
         IF extended.panic THEN Panics(PanicIndex) /\ UNCHANGED envs
         ELSE /\ envs' = extended.heap
              /\ Calls([f EXCEPT !.pc = "body", !.vals = <<fn>> \o args],
                       fn.Body, extended.env)
    ELSE IF fn.type = "BUILTIN"
    THEN Result(BuiltinFn(nextAddr, fn, args)) /\ UNCHANGED envs
    ELSE IF fn = NIL THEN Panics(PanicNil) /\ UNCHANGED envs
    ELSE Returns(newError(nextAddr, "not a function: " \o fn.type), NoErr)
         /\ UNCHANGED envs

\* evalExpressions runs in this frame: vals holds the callee, then the arguments.
EvalCallExpression ==
    /\ Running("CallExpression")
    /\ LET f == Top
           exps == f.node.Arguments
           function == IF f.pc = "function" THEN ret.obj ELSE f.vals[1]
           args == IF f.pc = "function" THEN <<>> ELSE Append(Tail(f.vals), ret.obj)
       IN IF status = "eval"
          THEN Calls([f EXCEPT !.pc = "function"], f.node.Function, f.env)
               /\ UNCHANGED envs
          ELSE IF ret.err # NoErr THEN Returns(NIL, ret.err) /\ UNCHANGED envs
          ELSE IF f.pc = "body"
          THEN Returns(unwrapReturnValue(ret.obj), NoErr) /\ UNCHANGED envs
          ELSE IF isError(ret.obj) THEN Returns(ret.obj, NoErr) /\ UNCHANGED envs
          ELSE IF Len(args) < Len(exps)
          THEN Calls([f EXCEPT !.pc = "arguments", !.vals = <<function>> \o args],
                     exps[Len(args) + 1], f.env)
               /\ UNCHANGED envs
          ELSE IF Len(args) = 1 /\ isError(args[1])
          THEN Returns(args[1], NoErr) /\ UNCHANGED envs
          ELSE applyFunction(f, function, args)
    /\ UNCHANGED <<prog, cancelled>>

\* The host cancels the context while the evaluation runs.
Cancel ==
    /\ status \in {"eval", "ret"}
    /\ ~cancelled
    /\ cancelled' = TRUE
    /\ UNCHANGED <<prog, stack, status, ret, envs, nextAddr>>

(***************************************************************************)
(* The programs evaluated, as the parser builds them.                      *)
(***************************************************************************)
True == BooleanLiteral(TRUE)
False == BooleanLiteral(FALSE)
EmptyBlock == Block(<<>>)
\* if (true) { return 1; }
IfReturn == If(True, Block(<<Return(IntegerLiteral(1))>>), NoNode)

FixedPrograms ==
    [ \* let f = fn() { f() }; f()
      recurse |-> Program(<<
          Let("f", Fn(<<>>, Block(<<ExprStmt(Call(Ident("f"), <<>>))>>))),
          ExprStmt(Call(Ident("f"), <<>>))>>),
      \* let f = fn() { if (true) { if (true) { return 10; } return 1; } return 2; }; f()
      nested |-> Program(<<
          Let("f", Fn(<<>>, Block(<<
              ExprStmt(If(True,
                  Block(<<ExprStmt(If(True, Block(<<Return(IntegerLiteral(10))>>), NoNode)),
                          Return(IntegerLiteral(1))>>),
                  NoNode)),
              Return(IntegerLiteral(2))>>))),
          ExprStmt(Call(Ident("f"), <<>>))>>),
      \* if (true) { if (true) { return 10; } 1 }; 99
      toplevel |-> Program(<<
          ExprStmt(If(True,
              Block(<<ExprStmt(If(True, Block(<<Return(IntegerLiteral(10))>>), NoNode)),
                      ExprStmt(IntegerLiteral(1))>>),
              NoNode)),
          ExprStmt(IntegerLiteral(99))>>),
      \* let f = fn() { let x = if (true) { return 1; }; 2 }; f()
      letif |-> Program(<<
          Let("f", Fn(<<>>, Block(<<Let("x", IfReturn), ExprStmt(IntegerLiteral(2))>>))),
          ExprStmt(Call(Ident("f"), <<>>))>>),
      \* return if (true) { return 1; };
      retif |-> Program(<<Return(IfReturn)>>),
      \* [if (true) { return 1; }]
      arrif |-> Program(<<ExprStmt(Array(<<IfReturn>>))>>),
      \* let newAdder = fn(x) { fn(y) { x + y } }; let addTwo = newAdder(2); addTwo(3);
      adder |-> Program(<<
          Let("newAdder", Fn(<<Ident("x")>>, Block(<<
              ExprStmt(Fn(<<Ident("y")>>, Block(<<
                  ExprStmt(Infix("+", Ident("x"), Ident("y")))>>)))>>))),
          Let("addTwo", Call(Ident("newAdder"), <<IntegerLiteral(2)>>)),
          ExprStmt(Call(Ident("addTwo"), <<IntegerLiteral(3)>>))>>),
      \* let x = 1; let f = fn(x) { let y = x; y }; let g = fn(x) { f(7) }; g(2) + x
      shadow |-> Program(<<
          Let("x", IntegerLiteral(1)),
          Let("f", Fn(<<Ident("x")>>, Block(<<Let("y", Ident("x")), ExprStmt(Ident("y"))>>))),
          Let("g", Fn(<<Ident("x")>>, Block(<<
              ExprStmt(Call(Ident("f"), <<IntegerLiteral(7)>>))>>))),
          ExprStmt(Infix("+", Call(Ident("g"), <<IntegerLiteral(2)>>), Ident("x")))>>),
      \* let f = fn() { x }; let x = 5; f()
      late |-> Program(<<
          Let("f", Fn(<<>>, Block(<<ExprStmt(Ident("x"))>>))),
          Let("x", IntegerLiteral(5)),
          ExprStmt(Call(Ident("f"), <<>>))>>),
      \* let f = fn(n) { if (n < 1) { 0 } else { f(n - 1) } }; f(1)
      selfref |-> Program(<<
          Let("f", Fn(<<Ident("n")>>, Block(<<
              ExprStmt(If(Infix("<", Ident("n"), IntegerLiteral(1)),
                  Block(<<ExprStmt(IntegerLiteral(0))>>),
                  Block(<<ExprStmt(Call(Ident("f"),
                      <<Infix("-", Ident("n"), IntegerLiteral(1))>>))>>)))>>))),
          ExprStmt(Call(Ident("f"), <<IntegerLiteral(1)>>))>>),
      \* fn(x, y) { 7 }(1)
      missing |-> Program(<<ExprStmt(Call(
          Fn(<<Ident("x"), Ident("y")>>, Block(<<ExprStmt(IntegerLiteral(7))>>)),
          <<IntegerLiteral(1)>>))>>),
      \* fn(x) { x }(1, 2)
      excess |-> Program(<<ExprStmt(Call(
          Fn(<<Ident("x")>>, Block(<<ExprStmt(Ident("x"))>>)),
          <<IntegerLiteral(1), IntegerLiteral(2)>>))>>),
      \* {"a": 1, "a": 2}["a"]
      hashdup |-> Program(<<ExprStmt(Index(
          HashLit(<<Pair(StringLiteral("a"), IntegerLiteral(1)),
                    Pair(StringLiteral("a"), IntegerLiteral(2))>>),
          StringLiteral("a")))>>),
      \* {"a": 1, true: 2}["b"]; {1: 2}[[]]; {[]: 1}
      hashes |-> Program(<<
          ExprStmt(Index(
              HashLit(<<Pair(StringLiteral("a"), IntegerLiteral(1)),
                        Pair(True, IntegerLiteral(2))>>),
              StringLiteral("b"))),
          Let("e", Index(HashLit(<<Pair(IntegerLiteral(1), IntegerLiteral(2))>>), Array(<<>>))),
          ExprStmt(HashLit(<<Pair(Array(<<>>), IntegerLiteral(1))>>))>>),
      \* [1, 2][1]; [1, 2][2]; len("ab"); len([1]); len(1, 2); 1[1]
      arrays |-> Program(<<
          ExprStmt(Index(Array(<<IntegerLiteral(1), IntegerLiteral(2)>>), IntegerLiteral(1))),
          ExprStmt(Index(Array(<<IntegerLiteral(1), IntegerLiteral(2)>>), IntegerLiteral(2))),
          ExprStmt(Call(Ident("len"), <<StringLiteral("ab")>>)),
          ExprStmt(Call(Ident("len"), <<Array(<<IntegerLiteral(1)>>)>>)),
          Let("e", Call(Ident("len"), <<IntegerLiteral(1), IntegerLiteral(2)>>)),
          ExprStmt(Index(IntegerLiteral(1), IntegerLiteral(1)))>>),
      \* -if (true) { }
      minusnil |-> Program(<<ExprStmt(Prefix("-", If(True, EmptyBlock, NoNode)))>>),
      \* fn() { let a = 1; }() + 1
      callnil |-> Program(<<ExprStmt(Infix("+",
          Call(Fn(<<>>, Block(<<Let("a", IntegerLiteral(1))>>)), <<>>),
          IntegerLiteral(1)))>>),
      \* !5; -5; !if (false) { 1 }; 7 / -2; -true; 1(2)
      prefixes |-> Program(<<
          ExprStmt(Prefix("!", IntegerLiteral(5))),
          ExprStmt(Prefix("-", IntegerLiteral(5))),
          ExprStmt(Prefix("!", If(False, Block(<<ExprStmt(IntegerLiteral(1))>>), NoNode))),
          ExprStmt(Infix("/", IntegerLiteral(7), Prefix("-", IntegerLiteral(2)))),
          Let("e", Prefix("-", True)),
          ExprStmt(Call(IntegerLiteral(1), <<IntegerLiteral(2)>>))>>),
      \* 1 / 0
      divzero |-> Program(<<ExprStmt(Infix("/", IntegerLiteral(1), IntegerLiteral(0)))>>),
      \* An Error in each sub-expression position, a sibling after it.
      \* let a = foo; a
      errlet |-> Program(<<Let("a", Ident("foo")), ExprStmt(Ident("a"))>>),
      \* let f = fn() { let a = foo; 1 }; f()
      errletfn |-> Program(<<
          Let("f", Fn(<<>>, Block(<<Let("a", Ident("foo")), ExprStmt(IntegerLiteral(1))>>))),
          ExprStmt(Call(Ident("f"), <<>>))>>),
      \* return foo; 1
      errreturn |-> Program(<<Return(Ident("foo")), ExprStmt(IntegerLiteral(1))>>),
      \* !foo
      errprefix |-> Program(<<ExprStmt(Prefix("!", Ident("foo")))>>),
      \* foo + 1
      errleft |-> Program(<<ExprStmt(Infix("+", Ident("foo"), IntegerLiteral(1)))>>),
      \* 1 + foo
      errright |-> Program(<<ExprStmt(Infix("+", IntegerLiteral(1), Ident("foo")))>>),
      \* if (foo) { 1 } else { 2 }
      errcond |-> Program(<<ExprStmt(If(Ident("foo"),
          Block(<<ExprStmt(IntegerLiteral(1))>>), Block(<<ExprStmt(IntegerLiteral(2))>>)))>>),
      \* foo(1)
      errcallee |-> Program(<<ExprStmt(Call(Ident("foo"), <<IntegerLiteral(1)>>))>>),
      \* len(1, foo, 2)
      errarg |-> Program(<<ExprStmt(Call(Ident("len"),
          <<IntegerLiteral(1), Ident("foo"), IntegerLiteral(2)>>))>>),
      \* [1, foo, 2]
      errelem |-> Program(<<ExprStmt(Array(
          <<IntegerLiteral(1), Ident("foo"), IntegerLiteral(2)>>))>>),
      \* foo[1]
      errcoll |-> Program(<<ExprStmt(Index(Ident("foo"), IntegerLiteral(1)))>>),
      \* [1][foo]
      errindex |-> Program(<<ExprStmt(Index(Array(<<IntegerLiteral(1)>>), Ident("foo")))>>),
      \* {foo: 1, 2: 3}
      errkey |-> Program(<<ExprStmt(HashLit(<<Pair(Ident("foo"), IntegerLiteral(1)),
                                              Pair(IntegerLiteral(2), IntegerLiteral(3))>>))>>),
      \* {1: foo, 2: 3}
      errvalue |-> Program(<<ExprStmt(HashLit(<<Pair(IntegerLiteral(1), Ident("foo")),
                                                Pair(IntegerLiteral(2), IntegerLiteral(3))>>))>>)
    ]

\* The operators the parser registers as infix, and operand expressions of every
\* kind of object: Integer, Boolean, String, Array, Function, Hash, Null,
\* ReturnValue, Builtin.
Operators == {"+", "-", "*", "/", "<", ">", "==", "!="}
Operands ==
    << IntegerLiteral(1), True, StringLiteral("a"), Array(<<>>), Fn(<<>>, EmptyBlock),
       HashLit(<<>>), If(False, EmptyBlock, NoNode), IfReturn, Ident("len") >>

ProgramIds ==
    {[name |-> n, op |-> "", l |-> 0, r |-> 0] : n \in DOMAIN FixedPrograms}
    \cup {[name |-> "infix", op |-> o, l |-> a, r |-> b] :
            o \in Operators, a \in DOMAIN Operands, b \in DOMAIN Operands}

\* <l> <op> <r>
ProgramOf(p) ==
    IF p.name = "infix"
    THEN Program(<<ExprStmt(Infix(p.op, Operands[p.l], Operands[p.r]))>>)
    ELSE FixedPrograms[p.name]

(***************************************************************************)
(* The host (repl.Run, or any caller with a cancellable context) hands a   *)
(* parsed program and a new environment to Eval.                           *)
(***************************************************************************)
Init ==
    /\ prog \in ProgramIds
    /\ stack = <<NewFrame(ProgramOf(prog), 1)>>
    /\ status = "eval"
    /\ ret = NoRet
    /\ envs = <<NewEnvironment>>
    /\ nextAddr = FirstAddr
    /\ cancelled \in BOOLEAN

Next ==
    \/ Cancel
    \/ EvalCtxErr
    \/ evalProgram
    \/ evalBlockStatement
    \/ EvalReturnStatement
    \/ EvalLetStatement
    \/ EvalIdentifier
    \/ EvalExpressionStatement
    \/ EvalFunctionLiteral
    \/ EvalIntegerLiteral
    \/ EvalStringLiteral
    \/ EvalBoolean
    \/ EvalArrayLiteral
    \/ evalHashLiteral
    \/ EvalIndexExpression
    \/ EvalPrefixExpression
    \/ EvalInfixExpression
    \/ evalIfExpression
    \/ EvalCallExpression

Spec == Init /\ [][Next]_vars

(***************************************************************************)
(* Properties.                                                             *)
(***************************************************************************)
\* A step of Eval (the host's Cancel leaves the stack as it is).
EvalStep == cancelled' = cancelled

\* The same pointer, and the same error beside it.
SameObject(o, q) == o.addr = q.addr /\ o.type = q.type
SamePair(r, q) == r.err = q.err /\ SameObject(r.obj, q.obj)

IsErrorObject(o) == o.type = "ERROR"
IsReturnValue(o) == o.type = "RETURN_VALUE"
Finished == status = "done" /\ ret.err = NoErr
FinishedWith(name) == Finished /\ prog.name = name
IsInteger(o, v) == o.type = "INTEGER" /\ o.Value = v

\* C1: when the context is cancelled as an Eval step begins, the step returns
\* (nil, the context's error) and does nothing else: no environment is written, no
\* object is made, no child is evaluated; every enclosing step hands the same pair
\* on; and the top-level Eval ends with (nil, context canceled), never an Error
\* object, also for the program that recurses without bound.
C1_CancellationAborts ==
    [][ /\ (status = "eval" /\ cancelled) =>
              /\ stack' = Pop
              /\ SamePair(ret', [obj |-> NIL, err |-> Canceled])
              /\ envs' = envs
              /\ nextAddr' = nextAddr
              /\ status' \in {"ret", "done"}
        /\ (status = "ret" /\ ret.err # NoErr) =>
              /\ stack' = Pop
              /\ SamePair(ret', ret)
              /\ envs' = envs
              /\ nextAddr' = nextAddr
              /\ status' \in {"ret", "done"}
        /\ (status' = "done" /\ ret'.err # NoErr) =>
              SamePair(ret', [obj |-> NIL, err |-> Canceled])
      ]_vars

\* The unbounded recursion, cancelled inside the third call of f.
C1_Witness ==
    /\ prog.name = "recurse"
    /\ status = "done"
    /\ SamePair(ret, [obj |-> NIL, err |-> Canceled])
    /\ Len(envs) > 3

\* C2: a ReturnValue handed to any activation below the nearest function call (or
\* the Program) ends that activation, which hands the same wrapped value on
\* without evaluating anything more.
C2_ReturnEndsEnclosingBlocks ==
    [][ ( /\ status = "ret"
          /\ ret.err = NoErr
          /\ IsReturnValue(ret.obj)
          /\ Top.node.kind \notin {"Program", "CallExpression"}
          /\ EvalStep )
        => (stack' = Pop /\ SamePair(ret', ret) /\ envs' = envs) ]_vars

\* The activations whose callee evaluated one of their sub-expressions.
SubExpressionParent(f) ==
    \/ f.node.kind \in {"LetStatement", "ReturnStatement", "PrefixExpression",
                        "InfixExpression", "ArrayLiteral", "IndexExpression",
                        "HashLiteral"}
    \/ f.node.kind = "CallExpression" /\ f.pc \in {"function", "arguments"}
    \/ f.node.kind = "IfExpression" /\ f.pc = "condition"

\* C3: when a sub-expression of a node evaluates to an Error object, the node
\* returns that same object: no sibling is evaluated, no operator or function is
\* applied (no object is made), and no environment is written (a LetStatement does
\* not bind its name).
C3_ErrorPropagates ==
    [][ ( /\ status = "ret"
          /\ ret.err = NoErr
          /\ IsErrorObject(ret.obj)
          /\ SubExpressionParent(Top)
          /\ EvalStep )
        => ( /\ stack' = Pop
             /\ SamePair(ret', ret)
             /\ envs' = envs
             /\ nextAddr' = nextAddr
             /\ status' \in {"ret", "done"} ) ]_vars

\* let a = foo; a  ends with the Error of foo, and a is not bound.
C3_Witness ==
    /\ prog.name = "errlet"
    /\ status = "done"
    /\ ret.err = NoErr
    /\ IsErrorObject(ret.obj)
    /\ ret.obj.Message = "identifier not found: foo"
    /\ "a" \notin DOMAIN envs[1].store

\* The InfixExpression activation has both operands, present, of different kinds.
MismatchedOperands ==
    /\ status = "ret"
    /\ ret.err = NoErr
    /\ Top.node.kind = "InfixExpression"
    /\ Top.pc = "right"
    /\ Top.vals[1] # NIL
    /\ ret.obj # NIL
    /\ ~IsErrorObject(Top.vals[1])
    /\ ~IsErrorObject(ret.obj)
    /\ Top.vals[1].type # ret.obj.type
    /\ EvalStep

TypeMismatch(o, left, operator, right) ==
    /\ IsErrorObject(o)
    /\ o.Message = "type mismatch: " \o left.type \o " " \o operator \o " " \o right.type

\* C4 as stated: every infix operator, == and != included, yields a "type
\* mismatch" Error on operands of different kinds.
C4_MismatchAlwaysError ==
    [][ MismatchedOperands
        => ( /\ status' \in {"ret", "done"}
             /\ ret'.err = NoErr
             /\ TypeMismatch(ret'.obj, Top.vals[1], Top.node.Operator, ret.obj) ) ]_vars

\* C4 amended: on operands of different kinds == yields FALSE and != yields TRUE;
\* every other infix operator yields a "type mismatch" Error.
C4_MismatchExceptEquality ==
    [][ MismatchedOperands
        => ( /\ status' \in {"ret", "done"}
             /\ ret'.err = NoErr
             /\ IF Top.node.Operator = "==" THEN SameObject(ret'.obj, FALSE_)
                ELSE IF Top.node.Operator = "!=" THEN SameObject(ret'.obj, TRUE_)
                ELSE TypeMismatch(ret'.obj, Top.vals[1], Top.node.Operator, ret.obj) ) ]_vars

\* true + 1  ends with the Error "type mismatch: BOOLEAN + INTEGER".
C4_Witness ==
    /\ prog = [name |-> "infix", op |-> "+", l |-> 2, r |-> 1]
    /\ status = "done"
    /\ ret.err = NoErr
    /\ IsErrorObject(ret.obj)
    /\ ret.obj.Message = "type mismatch: BOOLEAN + INTEGER"

\* The CallExpression activation has its callee, a closure, and all its arguments.
AppliesClosure ==
    /\ status = "ret"
    /\ ret.err = NoErr
    /\ ~IsErrorObject(ret.obj)
    /\ Top.node.kind = "CallExpression"
    /\ Top.pc \in {"function", "arguments"}
    /\ Len(Top.vals) = Len(Top.node.Arguments)
    /\ (IF Top.pc = "function" THEN ret.obj ELSE Top.vals[1]).type = "FUNCTION"
    /\ EvalStep
Callee == IF Top.pc = "function" THEN ret.obj ELSE Top.vals[1]
Arguments == IF Top.pc = "function" THEN <<>> ELSE Append(Tail(Top.vals), ret.obj)

\* C5: a call of a closure writes no frame that exists (not the captured frame,
\* not its ancestors, not the caller's); given an argument for every parameter, it
\* evaluates the body in a new frame whose outer frame is the closure's captured
\* environment, the parameters bound there by position; free names resolve
\* through the captured chain, so newAdder(2) applied to 3 yields 5, and a
\* parameter x shadows, and leaves alone, the x of the caller and of the global
\* frame.
C5_CallBindsInFreshFrame ==
    [][ /\ AppliesClosure => \A e \in 1..Len(envs) : envs'[e] = envs[e]
        /\ ( AppliesClosure /\ Len(Arguments) >= Len(Callee.Parameters) ) =>
              /\ status' = "eval"
              /\ stack'[Len(stack')].node = Callee.Body
              /\ stack'[Len(stack')].env = Len(envs) + 1
              /\ Len(envs') = Len(envs) + 1
              /\ envs'[Len(envs')].outer = Callee.Env
              /\ DOMAIN envs'[Len(envs')].store
                    = {Callee.Parameters[k].Value : k \in 1..Len(Callee.Parameters)}
              /\ \A k \in 1..Len(Callee.Parameters) :
                    (\A j \in (k + 1)..Len(Callee.Parameters) :
                        Callee.Parameters[j].Value # Callee.Parameters[k].Value)
                    => SameObject(envs'[Len(envs')].store[Callee.Parameters[k].Value],
                                  Arguments[k])
        /\ (status' = "done" /\ ret'.err = NoErr /\ prog.name = "adder")
              => IsInteger(ret'.obj, 5)
        /\ (status' = "done" /\ ret'.err = NoErr /\ prog.name = "shadow")
              => (IsInteger(ret'.obj, 8) /\ IsInteger(envs'[1].store["x"], 1))
      ]_vars

\* let newAdder = fn(x) { fn(y) { x + y } }; let addTwo = newAdder(2); addTwo(3)
\* ends with 5, x found in the frame of the call of newAdder that has returned.
C5_Witness ==
    /\ FinishedWith("adder")
    /\ IsInteger(ret.obj, 5)
    /\ Len(envs) = 3
    /\ envs[3].outer = 2
    /\ IsInteger(envs[2].store["x"], 2)
    /\ DOMAIN envs[1].store = {"newAdder", "addTwo"}

\* C6: a call of a closure with a number of arguments other than its number of
\* parameters does not fail: the body is evaluated next.
C6_ArityNotValidated ==
    [][ ( AppliesClosure /\ Len(Arguments) # Len(Callee.Parameters) )
        => ( /\ status' = "eval"
             /\ stack'[Len(stack')].node = Callee.Body ) ]_vars

\* C7: {"a": 1, "a": 2}["a"] is 2, the value of the pair written later, on every
\* evaluation.
C7_LastWriteWins ==
    FinishedWith("hashdup") => IsInteger(ret.obj, 2)

\* C8: a FunctionLiteral evaluates nothing of its body and writes no environment;
\* its closure holds the environment it was made in, the frame itself, so a name
\* bound in that frame afterwards (the closure's own name included) is found when
\* the closure is called.
C8_ClosureCapturesByReference ==
    [][ /\ ( /\ status = "eval"
             /\ ~cancelled
             /\ Top.node.kind = "FunctionLiteral"
             /\ EvalStep ) =>
              /\ stack' = Pop
              /\ envs' = envs
              /\ ret'.err = NoErr
              /\ ret'.obj.type = "FUNCTION"
              /\ ret'.obj.Env = Top.env
              /\ ret'.obj.Body = Top.node.Body
              /\ ret'.obj.Parameters = Top.node.Parameters
        /\ (status' = "done" /\ ret'.err = NoErr /\ prog.name = "late")
              => IsInteger(ret'.obj, 5)
        /\ (status' = "done" /\ ret'.err = NoErr /\ prog.name = "selfref")
              => IsInteger(ret'.obj, 0)
      ]_vars

\* let f = fn() { x }; let x = 5; f()  ends with 5: x was bound after f was made.
C8_Witness ==
    /\ FinishedWith("late")
    /\ IsInteger(ret.obj, 5)
    /\ envs[1].store["f"].Env = 1
    /\ envs[2] = NewEnclosedEnvironment(1)

\* C9: a ReturnValue is never the result of the Program, never bound to a name,
\* never wrapped in another ReturnValue and never held as an operand, an argument
\* or an array element.
C9_ReturnValueNeverEscapes ==
    /\ status = "done" => ~IsReturnValue(ret.obj)
    /\ IsReturnValue(ret.obj) => ~IsReturnValue(ret.obj.Value)
    /\ \A e \in 1..Len(envs) : \A n \in DOMAIN envs[e].store :
          ~IsReturnValue(envs[e].store[n])
    /\ \A d \in 1..Len(stack) : \A k \in 1..Len(stack[d].vals) :
          ~IsReturnValue(stack[d].vals[k])
    /\ ( /\ status = "ret"
         /\ Top.node.kind \in {"PrefixExpression", "InfixExpression", "IndexExpression",
                               "ArrayLiteral", "HashLiteral", "LetStatement",
                               "ReturnStatement"} )
       => ~IsReturnValue(ret.obj)

\* C10: without cancellation, the operand handed to a prefix, infix, index or call
\* activation is a present object.
C10_OperandsPresent ==
    ( /\ status = "ret"
      /\ ret.err = NoErr
      /\ \/ Top.node.kind \in {"PrefixExpression", "InfixExpression", "IndexExpression"}
         \/ Top.node.kind = "CallExpression" /\ Top.pc \in {"function", "arguments"} )
    => ret.obj # NIL

=============================================================================
